---- MODULE Spec2Model ----
(***************************************************************************)
(* Model of freedm.utils.ipc.client.base.IPCSocketClient: one client       *)
(* instance, the Connections it establishes, the background read task of   *)
(* each Connection (_handleConnection), the shutdown routine (__aexit__ /  *)
(* close / closeConnection) run by external callers and by the read tasks  *)
(* themselves, and the peer / transport as the environment.                *)
(*                                                                         *)
(* Scheduling is asyncio's: one thread, cooperative tasks.  An action is   *)
(* the code a task runs between two suspension points.  The suspension     *)
(* points are: a stream read that has to wait for data, the awaited        *)
(* message handler, the awaited _post_connect / _pre_disconnect /          *)
(* _post_disconnect hooks, asyncio.sleep(.1) in closeConnection and the    *)
(* wait of asyncio.wait_for when a timeout is set.                         *)
(*                                                                         *)
(* Two further components of the repository have specifications of their   *)
(* own over the same variables: entering UXDSocketServer (SpecUXD) and the *)
(* pure function topologicalSorter (SpecSort).                             *)
(*                                                                         *)
(* The interpreter is CPython 3.6 (the sources import freedm.utils.async   *)
(* and use f-strings): asyncio.CancelledError is a subclass of Exception.  *)
(***************************************************************************)
EXTENDS Integers, Sequences, FiniteSets, TLC

\* ------------------------------------------------------------------ bounds
\* Connections one instance establishes (calls of __aenter__ that connect).
MaxConns == 2
\* External tasks that call close() / __aexit__ on the instance.
MaxCallers == 1
\* Bytes a peer writes on one Connection.
MaxBytes == 5
\* Largest configured chunksize and limit.
MaxChunk == 2
MaxLimit == 5
\* Bytes a peer writes on a Connection that is read under a timeout.
MaxTimedBytes == 2
\* Calls of __aenter__ whose _init_connect yields no Connection.
MaxFailedEnters == 1
\* Filesystem paths a UXDSocketServer can be configured with.
MaxPaths == 2
\* Letters of the one-letter item names given to topologicalSorter.
MaxLetters == 3

\* Python's None for the integer options chunksize and limit.
NONE == -1

Conns == 1..MaxConns
\* The read task of Connection c is thread c; the external callers follow.
Tasks == Conns
Callers == (MaxConns + 1)..(MaxConns + MaxCallers)
Threads == Tasks \cup Callers

VARIABLES
    workload,      \* what the run does: Connections entered, bytes per peer
    chunksize,     \* self.chunksize: NONE or a positive integer
    limit,         \* self.limit: NONE or an integer >= 0
    canWriteEof,   \* connection.writer.can_write_eof() of the transport in use
    timeout,       \* self.timeout: NONE or a number of seconds >= 0
    connection,    \* self._connection: 0 (None) or a Connection
    handler,       \* self._handler: 0 (None) or the read task
    nconns,        \* Connections assembled so far
    sent,          \* [Conns -> Nat] bytes the peer has written
    buffer,        \* [Conns -> Seq(Nat)] StreamReader._buffer
    blocks,        \* [Conns -> Seq(Nat)] what a pending read(-1) has collected
    eof,           \* [Conns -> BOOLEAN] StreamReader._eof
    exc,           \* [Conns -> {"none","reset","fault"}] StreamReader._exception
    closing,       \* [Conns -> BOOLEAN] writer.transport.is_closing()
    tclosed,       \* [Conns -> BOOLEAN] writer.close() has been performed
    wroteEof,      \* [Conns -> BOOLEAN] writer.write_eof() has been performed
    closedStamps,  \* [Conns -> Nat] assignments to state['closed'] (0: still None)
    pc,            \* [Threads -> STRING] where each task is suspended
    outcome,       \* [Tasks -> STRING] how a read task ended
    cancelReq,     \* [Tasks -> BOOLEAN] Task.cancel() requested, not yet delivered
    chunks,        \* [Conns -> Nat] the local variable chunks of _handleConnection
    xconn,         \* [Threads -> 0..MaxConns] local variable connection of __aexit__
    xhandler,      \* [Threads -> 0..MaxConns] local variable handler of __aexit__
    delivered,     \* [Conns -> Seq(Seq(Nat))] payloads passed to handleMessage
    readsIssued,   \* [Conns -> Nat] calls of connection.reader.read
    handleReturns, \* [Conns -> Nat] returns of handleMessage
    cause,         \* [Tasks -> STRING] what ended the while loop of a read task
    events,        \* [Conns -> Seq(record)] shutdown steps performed on a Connection
    wpc,           \* [Conns -> STRING] position of the asyncio.wait_for task
    woutcome,      \* [Conns -> STRING] how the asyncio.wait_for task ended
    wcancel,       \* [Conns -> BOOLEAN] Task.cancel() requested of the wait_for task
    entering,      \* the Connection whose _post_connect __aenter__ awaits, or 0
    entered,       \* [Conns -> STRING] how the __aenter__ that made it ended
    log,           \* Seq(STRING) what __aenter__ has logged
    upath,         \* UXDSocketServer.path: 0 (None or '') or a path
    ulimit,        \* UXDSocketServer.limit: NONE or an integer >= 0
    fs,            \* [Paths -> STRING] what the filesystem holds at each path
    upc,           \* where UXDSocketServer.__aenter__ stands
    ufound,        \* what os.path.exists / os.path.isdir found at self.path
    uraised,       \* the exception UXDSocketServer.__aenter__ raised
    usock,         \* the path the server's socket is bound to, 0 if none
    userver,       \* self._server: "none", or how start_unix_server was called
    ulog,          \* Seq(STRING) filesystem operations __aenter__ performed
    sdata,         \* the dict passed to topologicalSorter: item -> set of items
    sresult,       \* what topologicalSorter returned or raised
    spc            \* "idle" before the call of topologicalSorter, "returned" after

config == <<workload, chunksize, limit, canWriteEof, timeout>>
instance == <<connection, handler>>
stream == <<sent, buffer, blocks, eof, exc>>
transport == <<closing, tclosed, wroteEof, closedStamps>>
frames == <<xconn, xhandler>>
loopvars == <<chunks, delivered, readsIssued, handleReturns, cause>>
waitfor == <<wpc, woutcome, wcancel>>
enter == <<entering, entered, log>>
uxd == <<upath, ulimit, fs, upc, ufound, uraised, usock, userver, ulog>>
sorter == <<sdata, sresult, spc>>
others == <<uxd, sorter>>
client == <<workload, chunksize, limit, canWriteEof, timeout, wpc, woutcome, wcancel,
            entering, entered, log,
            connection, handler, nconns,
            sent, buffer, blocks, eof, exc,
            closing, tclosed, wroteEof, closedStamps, pc, outcome, cancelReq,
            chunks, xconn, xhandler, delivered, readsIssued, handleReturns, cause,
            events>>
vars == <<upath, ulimit, fs, upc, ufound, uraised, usock, userver, ulog,
          sdata, sresult, spc, entering, entered, log, workload, chunksize, limit, canWriteEof, timeout, wpc, woutcome, wcancel,
          connection, handler, nconns,
          sent, buffer, blocks, eof, exc,
          closing, tclosed, wroteEof, closedStamps, pc, outcome, cancelReq,
          chunks, xconn, xhandler, delivered, readsIssued, handleReturns, cause,
          events>>

\* ------------------------------------------------------------------ helpers
\* Python truthiness of an Optional[int]: None and 0 are false.
Truthy(x) == x # NONE /\ x # 0

Min(a, b) == IF a < b THEN a ELSE b

RECURSIVE Flatten(_)
Flatten(ms) == IF ms = <<>> THEN <<>> ELSE Head(ms) \o Flatten(Tail(ms))

\* IPCSocketClient.connected: self._connection and not state['closed'].
connected == connection # 0 /\ closedStamps[connection] = 0

\* StreamReader.at_eof(): _eof and not _buffer.
AtEof(c) == eof[c] /\ buffer[c] = <<>>

\* A shutdown step on a Connection, with the transport as the step finds it.
Event(name, isClosing, isClosed, isStamped) ==
    [ev |-> name, open |-> ~isClosing /\ ~isClosed, closed |-> isClosed,
     stamped |-> isStamped]

Seen(name, c) == Event(name, closing[c], tclosed[c], closedStamps[c] > 0)

\* How often step name was performed on Connection c.
Count(name, c) == Cardinality({i \in 1..Len(events[c]) : events[c][i].ev = name})

\* The runs explored: one Connection with a long stream under every
\* configuration of chunksize, limit and transport, several Connections
\* entered on the same instance with short streams, and one Connection with
\* a short stream whose read task is started with a timeout option, by a
\* subclass whose _init_connect can fail and whose _post_connect suspends
\* and can fail (in the other two _post_connect is the default, which
\* returns at once); the last two read without chunksize up to the limit
\* over a socket transport (which supports write_eof).
Workloads == {[conns |-> 1, bytes |-> MaxBytes, timed |-> FALSE, hooked |-> FALSE],
              [conns |-> MaxConns, bytes |-> 1, timed |-> FALSE, hooked |-> FALSE],
              [conns |-> 1, bytes |-> MaxTimedBytes, timed |-> TRUE, hooked |-> TRUE]}

InitClient ==
    /\ workload \in Workloads
    /\ chunksize \in IF workload.bytes = MaxBytes THEN {NONE} \cup 1..MaxChunk
                     ELSE {NONE}
    /\ limit \in IF workload.bytes = MaxBytes THEN {NONE} \cup 0..MaxLimit
                 ELSE {MaxLimit}
    /\ canWriteEof \in IF workload.bytes = MaxBytes THEN BOOLEAN ELSE {TRUE}
    /\ timeout \in IF workload.timed THEN {0, 1} ELSE {NONE}
    /\ wpc = [c \in Conns |-> "none"]
    /\ woutcome = [c \in Conns |-> "none"]
    /\ wcancel = [c \in Conns |-> FALSE]
    /\ entering = 0
    /\ entered = [c \in Conns |-> "none"]
    /\ log = <<>>
    /\ connection = 0
    /\ handler = 0
    /\ nconns = 0
    /\ sent = [c \in Conns |-> 0]
    /\ buffer = [c \in Conns |-> <<>>]
    /\ blocks = [c \in Conns |-> <<>>]
    /\ eof = [c \in Conns |-> FALSE]
    /\ exc = [c \in Conns |-> "none"]
    /\ closing = [c \in Conns |-> FALSE]
    /\ tclosed = [c \in Conns |-> FALSE]
    /\ wroteEof = [c \in Conns |-> FALSE]
    /\ closedStamps = [c \in Conns |-> 0]
    /\ pc = [t \in Threads |-> IF t \in Tasks THEN "none" ELSE "idle"]
    /\ outcome = [c \in Tasks |-> "none"]
    /\ cancelReq = [c \in Tasks |-> FALSE]
    /\ chunks = [c \in Conns |-> 0]
    /\ xconn = [t \in Threads |-> 0]
    /\ xhandler = [t \in Threads |-> 0]
    /\ delivered = [c \in Conns |-> <<>>]
    /\ readsIssued = [c \in Conns |-> 0]
    /\ handleReturns = [c \in Conns |-> 0]
    /\ cause = [c \in Tasks |-> "none"]
    /\ events = [c \in Conns |-> <<>>]

Paths == 1..MaxPaths

\* No UXDSocketServer exists.
NoUXD ==
    /\ upath = 0
    /\ ulimit = NONE
    /\ fs = [p \in Paths |-> "absent"]
    /\ upc = "idle"
    /\ ufound = "none"
    /\ uraised = "none"
    /\ usock = 0
    /\ userver = "none"
    /\ ulog = <<>>

\* What topologicalSorter hands back: the list it returns, or the exception.
Outcome(exception, list) == [raised |-> exception, list |-> list]

\* topologicalSorter is not called.
NoSort ==
    /\ sdata = <<>>
    /\ sresult = Outcome("none", <<>>)
    /\ spc = "idle"

Init == InitClient /\ NoUXD /\ NoSort

\* ------------------------------------------------------------------ enter
\* Variant of Stored: the Connection is not kept.
StoredNothing(c) == 0

\* What _onConnectionEstablished stores in self._connection.
Stored(c) == c

\* __aenter__ with an _init_connect that yields a Connection, up to the
\* awaited _post_connect hook: _onConnectionEstablished stores it and
\* schedules the read task, or with a timeout the asyncio.wait_for task that
\* will run it.
Aenter ==
    /\ entering = 0
    /\ nconns < workload.conns
    /\ entering' = IF workload.hooked THEN nconns + 1 ELSE 0
    /\ entered' = IF workload.hooked THEN entered
                  ELSE [entered EXCEPT ![nconns + 1] = "self"]
    /\ nconns' = nconns + 1
    /\ connection' = Stored(nconns + 1)
    /\ handler' = nconns + 1
    /\ IF Truthy(timeout)
       THEN wpc' = [wpc EXCEPT ![nconns + 1] = "new"] /\ UNCHANGED pc
       ELSE pc' = [pc EXCEPT ![nconns + 1] = "new"] /\ UNCHANGED wpc
    /\ UNCHANGED <<others, log, config, woutcome, wcancel, stream,
                   transport, outcome, cancelReq, frames, loopvars, events>>

\* What an exception of _post_connect leaves of the log: __aenter__ has no
\* handler around the hook and the exception goes to its caller.
Propagated(lg) == lg

\* __aenter__ from the end of _post_connect: the hook returns and __aenter__
\* returns self, or the hook raises and so does __aenter__.
PostConnectDone ==
    /\ entering # 0
    /\ \E failed \in BOOLEAN :
          /\ entered' = [entered EXCEPT ![entering] =
                            IF failed THEN "raised" ELSE "self"]
          /\ log' = IF failed THEN Propagated(log) ELSE log
    /\ entering' = 0
    /\ UNCHANGED <<others, config, waitfor, instance, nconns, stream, transport,
                   pc, outcome, cancelReq, frames, loopvars, events>>

\* __aenter__ with an _init_connect that yields None: nothing is stored, the
\* failure is logged and self is returned.
AenterNoConnection ==
    /\ workload.hooked
    /\ entering = 0
    /\ Len(log) < MaxFailedEnters
    /\ log' = Append(log, "IPC connection could not be established")
    /\ UNCHANGED <<others, entering, entered, config, waitfor, instance, nconns,
                   stream, transport, pc, outcome, cancelReq, frames, loopvars,
                   events>>

\* ------------------------------------------------------------------ shutdown
\* Variant of Cleared: the reference is left in place.
Kept(ref) == ref

\* self._handler = None; self._connection = None
Cleared(ref) == 0

Returned(t) == IF t \in Tasks THEN "done" ELSE "returned"

Finish(t, how) == IF t \in Tasks THEN [outcome EXCEPT ![t] = how] ELSE outcome

\* Variant of Cancel: the handler is not cancelled.
CancelNothing(h) == cancelReq

\* Task.cancel() on the snapshot handler: delivered as CancelledError at the
\* cancelled task's current or next suspension point; nothing if it is done.
Cancel(h) ==
    IF h # 0 /\ pc[h] # "done" THEN [cancelReq EXCEPT ![h] = TRUE] ELSE cancelReq

\* The same on a handler that is an asyncio.wait_for task.
CancelWaitFor(h) ==
    IF h # 0 /\ wpc[h] # "done" THEN [wcancel EXCEPT ![h] = TRUE] ELSE wcancel

\* __aexit__ up to the awaited _pre_disconnect hook, run by thread t.
AexitBegin(t) ==
    IF ~connected
    THEN /\ pc' = [pc EXCEPT ![t] = Returned(t)]
         /\ outcome' = Finish(t, "ok")
         /\ UNCHANGED <<instance, frames, events>>
    ELSE /\ xhandler' = [xhandler EXCEPT ![t] = handler]
         /\ xconn' = [xconn EXCEPT ![t] = connection]
         /\ handler' = Cleared(handler)
         /\ connection' = Cleared(connection)
         /\ events' = [events EXCEPT
                ![connection] = Append(@, Seen("preDisconnect", connection))]
         /\ pc' = [pc EXCEPT ![t] = "pre"]
         /\ UNCHANGED outcome

\* close() / __aexit__ called by an external task.
Close(t) ==
    /\ t \in Callers
    /\ pc[t] \in {"idle", "returned"}
    /\ AexitBegin(t)
    /\ UNCHANGED <<others, enter, config, waitfor, nconns, stream, transport, cancelReq, loopvars>>

\* A CancelledError raised in thread t while it is inside __aexit__ and not
\* inside closeConnection's try: it leaves __aexit__, close and
\* _handleConnection, and the read task ends cancelled.
AexitCancelled(t) ==
    /\ pc' = [pc EXCEPT ![t] = "done"]
    /\ outcome' = [outcome EXCEPT ![t] = "cancelled"]
    /\ cancelReq' = [cancelReq EXCEPT ![t] = FALSE]
    /\ xconn' = [xconn EXCEPT ![t] = 0]
    /\ xhandler' = [xhandler EXCEPT ![t] = 0]

\* Variant of Handshake: the branch is chosen by the reader's EOF flag alone.
HandshakeByFlag(c) ==
    IF closing[c] THEN <<>>
    ELSE IF eof[c] THEN <<Seen("feed_eof", c)>>
    ELSE IF canWriteEof THEN <<Seen("write_eof", c)>>
    ELSE <<>>

\* The steps of closeConnection before asyncio.sleep(.1), as events.
Handshake(c) ==
    IF closing[c] THEN <<>>
    ELSE IF AtEof(c) THEN <<Seen("feed_eof", c)>>
    ELSE IF canWriteEof THEN <<Seen("write_eof", c)>>
    ELSE <<>>

\* __aexit__ from the return of _pre_disconnect: handler.cancel(), then
\* closeConnection up to asyncio.sleep(.1); when the transport is already
\* closing closeConnection does nothing and _post_disconnect is awaited.
PreDisconnectDone(t) ==
    /\ pc[t] = "pre"
    /\ IF t \in Tasks /\ cancelReq[t]
       THEN /\ AexitCancelled(t)
            /\ UNCHANGED <<wroteEof, events, wcancel>>
       ELSE LET c == xconn[t]
                h == xhandler[t]
            IN  /\ cancelReq' = IF Truthy(timeout) THEN cancelReq ELSE Cancel(h)
                /\ wcancel' = IF Truthy(timeout) THEN CancelWaitFor(h) ELSE wcancel
                /\ wroteEof' = IF ~closing[c] /\ ~AtEof(c) /\ canWriteEof
                               THEN [wroteEof EXCEPT ![c] = TRUE] ELSE wroteEof
                /\ events' = [events EXCEPT ![c] =
                       @ \o (IF h # 0 THEN <<Seen("cancel", c)>> ELSE <<>>)
                         \o <<Seen("closeConnection", c)>>
                         \o Handshake(c)
                         \o (IF closing[c] THEN <<Seen("postDisconnect", c)>>
                             ELSE <<>>)]
                /\ pc' = [pc EXCEPT ![t] = IF closing[c] THEN "post" ELSE "sleep"]
                /\ UNCHANGED <<outcome, frames>>
    /\ UNCHANGED <<others, enter, config, wpc, woutcome, instance, nconns, stream, closing,
                   tclosed, closedStamps, loopvars>>

\* closeConnection from the end of asyncio.sleep(.1) and __aexit__ up to the
\* awaited _post_disconnect hook.  A CancelledError delivered at the sleep is
\* caught by the bare except, which skips writer.close(); the finally clause
\* stamps state['closed'] in either case.  writer.close() closes the
\* transport, whose connection_lost feeds EOF to the reader.
SleepDone(t) ==
    /\ pc[t] = "sleep"
    /\ LET c == xconn[t]
           cancelled == t \in Tasks /\ cancelReq[t]
           nowClosing == closing[c] \/ ~cancelled
           nowClosed == tclosed[c] \/ ~cancelled
       IN  /\ cancelReq' = IF cancelled THEN [cancelReq EXCEPT ![t] = FALSE]
                            ELSE cancelReq
           /\ closing' = [closing EXCEPT ![c] = nowClosing]
           /\ tclosed' = [tclosed EXCEPT ![c] = nowClosed]
           /\ eof' = IF cancelled \/ closing[c] THEN eof
                     ELSE [eof EXCEPT ![c] = TRUE]
           /\ closedStamps' = [closedStamps EXCEPT ![c] = @ + 1]
           /\ events' = [events EXCEPT ![c] =
                  @ \o (IF cancelled THEN <<>>
                        ELSE <<Event("close", closing[c], tclosed[c],
                                     closedStamps[c] > 0)>>)
                    \o <<Event("stamp", nowClosing, nowClosed, closedStamps[c] > 0)>>
                    \o <<Event("postDisconnect", nowClosing, nowClosed, TRUE)>>]
           /\ pc' = [pc EXCEPT ![t] = "post"]
    /\ UNCHANGED <<others, enter, config, waitfor, instance, nconns, sent, buffer, blocks, exc, wroteEof,
                   outcome, frames, loopvars>>

\* __aexit__ from the return of _post_disconnect to its own return.  A read
\* task with a cancellation pending gets it here if the hook suspended.
PostDisconnectDone(t) ==
    /\ pc[t] = "post"
    /\ \E suspended \in BOOLEAN :
          IF t \in Tasks /\ cancelReq[t] /\ suspended
          THEN AexitCancelled(t)
          ELSE /\ pc' = [pc EXCEPT ![t] = Returned(t)]
               /\ outcome' = Finish(t, "ok")
               /\ cancelReq' = IF t \in Tasks THEN [cancelReq EXCEPT ![t] = FALSE]
                                ELSE cancelReq
               /\ xconn' = [xconn EXCEPT ![t] = 0]
               /\ xhandler' = [xhandler EXCEPT ![t] = 0]
    /\ UNCHANGED <<others, enter, config, waitfor, instance, nconns, stream, transport, loopvars, events>>

\* ------------------------------------------------------------------ read loop
\* Variant of Budget: the read in progress is not yet counted.
BudgetLate(c) == limit - (chunks[c] - 1) * chunksize

\* self.limit - chunks * self.chunksize
Budget(c) == limit - chunks[c] * chunksize

\* The loop stops before a read: chunksize and limit set, budget below a chunk.
BudgetSpent(c) == Truthy(chunksize) /\ Truthy(limit) /\ Budget(c) < chunksize

\* The argument of connection.reader.read: self.chunksize, or self.limit or -1.
ReadSize == IF Truthy(chunksize) THEN chunksize
            ELSE IF Truthy(limit) THEN limit ELSE -1

\* The read at the head of StreamReader.read has to wait: no byte buffered
\* and no EOF yet.  read(-1) is a loop of such reads that ends at EOF.
ReadBlocks(c) == buffer[c] = <<>> /\ ~eof[c]

\* The bytes one read of up to n bytes takes from the buffer (read(-1) takes
\* whole blocks), and what it leaves.
ReadData(buf, n) == IF n < 0 THEN buf ELSE SubSeq(buf, 1, Min(n, Len(buf)))

ReadRest(buf, n) == SubSeq(buf, Len(ReadData(buf, n)) + 1, Len(buf))

\* Variant of Dispatch: the newest Message overtakes the earlier ones.
DispatchFirst(ms, raw) == <<raw>> \o ms

\* Message(data=raw, sender=connection) handed to handleMessage.
Dispatch(ms, raw) == Append(ms, raw)

\* The except clause that catches what a read on a failed reader raises.
Caught(kind) == IF kind = "reset" THEN "ConnectionResetError" ELSE "Exception"

\* The while loop of task c is left for the reason why.
Ended(c, why) == [cause EXCEPT ![c] = why]

\* The loop is left by break or by its condition: await self.close().  The
\* reader is left with buffer buf; what read(-1) had collected is dropped.
LoopExit(c, buf) ==
    /\ AexitBegin(c)
    /\ buffer' = [buffer EXCEPT ![c] = buf]
    /\ blocks' = [blocks EXCEPT ![c] = <<>>]
    /\ UNCHANGED <<chunks, delivered>>

\* reader.read(n) runs with a byte or EOF available.  read(-1) before EOF
\* collects the block and waits on; otherwise read returns: chunks += 1 in
\* chunked mode, a non-empty result is dispatched to the awaited
\* handleMessage, an empty one (EOF) ends the loop.
TakeRead(c, n) ==
    LET raw == IF n < 0 THEN blocks[c] \o buffer[c] ELSE ReadData(buffer[c], n)
    IN  IF n < 0 /\ ~eof[c]
        THEN /\ blocks' = [blocks EXCEPT ![c] = raw]
             /\ buffer' = [buffer EXCEPT ![c] = <<>>]
             /\ pc' = [pc EXCEPT ![c] = "read"]
             /\ UNCHANGED <<instance, frames, events, outcome, chunks, delivered,
                            cause>>
        ELSE IF raw # <<>>
        THEN /\ buffer' = [buffer EXCEPT ![c] = ReadRest(@, n)]
             /\ blocks' = [blocks EXCEPT ![c] = <<>>]
             /\ chunks' = IF Truthy(chunksize) THEN [chunks EXCEPT ![c] = @ + 1]
                          ELSE chunks
             /\ delivered' = [delivered EXCEPT ![c] = Dispatch(@, raw)]
             /\ pc' = [pc EXCEPT ![c] = "handle"]
             /\ UNCHANGED <<instance, frames, events, outcome, cause>>
        ELSE /\ AexitBegin(c)
             /\ blocks' = [blocks EXCEPT ![c] = <<>>]
             /\ chunks' = IF Truthy(chunksize) THEN [chunks EXCEPT ![c] = @ + 1]
                          ELSE chunks
             /\ cause' = Ended(c, "eof")
             /\ UNCHANGED <<buffer, delivered>>

\* One pass from the while condition to the next suspension point.  A read
\* on a reader whose exception is set raises at once.
LoopTop(c) ==
    IF AtEof(c) \/ BudgetSpent(c)
    THEN /\ LoopExit(c, buffer[c])
         /\ cause' = Ended(c, IF AtEof(c) THEN "eof" ELSE "budget")
         /\ UNCHANGED readsIssued
    ELSE /\ readsIssued' = [readsIssued EXCEPT ![c] = @ + 1]
         /\ IF exc[c] # "none"
            THEN LoopExit(c, buffer[c]) /\ cause' = Ended(c, Caught(exc[c]))
            ELSE IF ReadBlocks(c)
            THEN /\ pc' = [pc EXCEPT ![c] = "read"]
                 /\ UNCHANGED <<instance, frames, events, outcome, buffer,
                                blocks, chunks, delivered, cause>>
            ELSE TakeRead(c, ReadSize)

\* First step of the task of _handleConnection.  A task cancelled before its
\* first step ends cancelled without running any of the coroutine.
HandleConnectionStart(c) ==
    /\ pc[c] = "new"
    /\ IF cancelReq[c]
       THEN /\ pc' = [pc EXCEPT ![c] = "done"]
            /\ outcome' = [outcome EXCEPT ![c] = "cancelled"]
            /\ cancelReq' = [cancelReq EXCEPT ![c] = FALSE]
            /\ UNCHANGED <<instance, frames, events, buffer, blocks, chunks,
                           delivered, readsIssued, cause>>
       ELSE LoopTop(c) /\ UNCHANGED cancelReq
    /\ UNCHANGED <<others, enter, config, waitfor, nconns, sent, eof, exc, transport, handleReturns>>

\* The waiting read is woken: by a cancellation (except CancelledError: break),
\* by the reader's exception (break), or by data or EOF.  A read(n) woken by
\* data returns it even if the exception was set since; read(-1) takes the
\* data and raises on its next inner read.
ReadWake(c) ==
    /\ pc[c] = "read"
    /\ cancelReq[c] \/ exc[c] # "none" \/ ~ReadBlocks(c)
    /\ IF cancelReq[c]
       THEN /\ cancelReq' = [cancelReq EXCEPT ![c] = FALSE]
            /\ LoopExit(c, buffer[c])
            /\ cause' = Ended(c, "CancelledError")
       ELSE /\ UNCHANGED cancelReq
            /\ IF exc[c] # "none" /\ (ReadSize < 0 \/ buffer[c] = <<>>)
               THEN LoopExit(c, <<>>) /\ cause' = Ended(c, Caught(exc[c]))
               ELSE TakeRead(c, ReadSize)
    /\ UNCHANGED <<others, enter, config, waitfor, nconns, sent, eof, exc, transport, readsIssued,
                   handleReturns>>

\* handleMessage returns and the loop goes on.
HandleMessageReturn(c) ==
    /\ pc[c] = "handle"
    /\ ~cancelReq[c]
    /\ handleReturns' = [handleReturns EXCEPT ![c] = @ + 1]
    /\ LoopTop(c)
    /\ UNCHANGED <<others, enter, config, waitfor, nconns, sent, eof, exc, transport, cancelReq>>

\* Variant of Raised: the exception of handleMessage is passed on as it is.
RaisedBare(e) == e

\* except Exception as e: raise freedmIPCMessageHandler(e)
Raised(e) == "freedmIPCMessageHandler"

\* handleMessage raises, or the task is cancelled inside it (CancelledError is
\* an Exception): raise freedmIPCMessageHandler(e) ends the task; close() is
\* not reached.
HandleMessageFault(c) ==
    /\ pc[c] = "handle"
    /\ pc' = [pc EXCEPT ![c] = "done"]
    /\ outcome' = [outcome EXCEPT ![c] = Raised(IF cancelReq[c] THEN "CancelledError"
                                                             ELSE "Exception")]
    /\ cancelReq' = [cancelReq EXCEPT ![c] = FALSE]
    /\ cause' = Ended(c, IF cancelReq[c] THEN "handleMessage:CancelledError"
                                         ELSE "handleMessage:Exception")
    /\ UNCHANGED <<others, enter, config, waitfor, instance, nconns, stream, transport, frames,
                   chunks, delivered, readsIssued, handleReturns, events>>

\* ------------------------------------------------------------------ timeout
\* First step of the asyncio.wait_for task: it creates the task of
\* _handleConnection, arms the timer and waits.  Cancelled before its first
\* step it ends cancelled and the read task is never created.
WaitForStart(c) ==
    /\ wpc[c] = "new"
    /\ wpc' = [wpc EXCEPT ![c] = IF wcancel[c] THEN "done" ELSE "waiting"]
    /\ woutcome' = IF wcancel[c] THEN [woutcome EXCEPT ![c] = "cancelled"]
                   ELSE woutcome
    /\ wcancel' = [wcancel EXCEPT ![c] = FALSE]
    /\ pc' = IF wcancel[c] THEN pc ELSE [pc EXCEPT ![c] = "new"]
    /\ UNCHANGED <<others, enter, config, instance, nconns, stream, transport, outcome,
                   cancelReq, frames, loopvars, events>>

\* The waiting asyncio.wait_for task is woken by its own cancellation, which
\* it passes on to the read task (fut.cancel(); raise), or by the end of the
\* read task, whose result or exception becomes its own (fut.result()).
\* The first step of the read task was scheduled before any wake-up of the
\* wait_for task and has run by then.
WaitForWake(c) ==
    /\ wpc[c] = "waiting"
    /\ pc[c] # "new"
    /\ wcancel[c] \/ pc[c] = "done"
    /\ wpc' = [wpc EXCEPT ![c] = "done"]
    /\ woutcome' = [woutcome EXCEPT ![c] = IF wcancel[c] THEN "cancelled"
                                           ELSE outcome[c]]
    /\ wcancel' = [wcancel EXCEPT ![c] = FALSE]
    /\ cancelReq' = IF wcancel[c] THEN Cancel(c) ELSE cancelReq
    /\ UNCHANGED <<others, enter, config, instance, nconns, stream, transport, pc, outcome,
                   frames, loopvars, events>>

\* The timer of asyncio.wait_for fires before the read task has ended:
\* fut.cancel(); raise TimeoutError.
Timeout(c) ==
    /\ wpc[c] = "waiting"
    /\ ~wcancel[c]
    /\ pc[c] \notin {"new", "done"}
    /\ wpc' = [wpc EXCEPT ![c] = "done"]
    /\ woutcome' = [woutcome EXCEPT ![c] = "TimeoutError"]
    /\ cancelReq' = Cancel(c)
    /\ UNCHANGED <<others, enter, config, wcancel, instance, nconns, stream, transport, pc,
                   outcome, frames, loopvars, events>>

\* ------------------------------------------------------------------ peer
\* The peer writes k more bytes; byte i of a stream has the value i.
PeerWrite(c, k) ==
    /\ c <= nconns
    /\ ~closing[c] /\ ~eof[c] /\ exc[c] = "none"
    /\ sent[c] + k <= workload.bytes
    /\ buffer' = [buffer EXCEPT ![c] = @ \o [i \in 1..k |-> sent[c] + i]]
    /\ sent' = [sent EXCEPT ![c] = @ + k]
    /\ UNCHANGED <<others, enter, config, waitfor, instance, nconns, blocks, eof, exc, transport, pc,
                   outcome, cancelReq, frames, loopvars, events>>

\* The peer closes its write side: StreamReader.feed_eof().
PeerEof(c) ==
    /\ c <= nconns
    /\ ~closing[c] /\ ~eof[c] /\ exc[c] = "none"
    /\ eof' = [eof EXCEPT ![c] = TRUE]
    /\ UNCHANGED <<others, enter, config, waitfor, instance, nconns, sent, buffer, blocks, exc,
                   transport, pc, outcome, cancelReq, frames, loopvars, events>>

\* The transport fails (ConnectionResetError or another OSError): it is
\* force-closed and connection_lost(exc) sets the reader's exception.
ConnectionLost(c, kind) ==
    /\ c <= nconns
    /\ ~closing[c]
    /\ closing' = [closing EXCEPT ![c] = TRUE]
    /\ exc' = [exc EXCEPT ![c] = kind]
    /\ UNCHANGED <<others, enter, config, waitfor, instance, nconns, sent, buffer, blocks, eof, tclosed,
                   wroteEof, closedStamps, pc, outcome, cancelReq, frames,
                   loopvars, events>>

Next ==
    \/ Aenter
    \/ PostConnectDone
    \/ AenterNoConnection
    \/ \E t \in Callers : Close(t)
    \/ \E t \in Threads : PreDisconnectDone(t)
    \/ \E t \in Threads : SleepDone(t)
    \/ \E t \in Threads : PostDisconnectDone(t)
    \/ \E c \in Conns : HandleConnectionStart(c)
    \/ \E c \in Conns : ReadWake(c)
    \/ \E c \in Conns : HandleMessageReturn(c)
    \/ \E c \in Conns : HandleMessageFault(c)
    \/ \E c \in Conns : WaitForStart(c)
    \/ \E c \in Conns : WaitForWake(c)
    \/ \E c \in Conns : Timeout(c)
    \/ \E c \in Conns, k \in 1..MaxBytes : PeerWrite(c, k)
    \/ \E c \in Conns : PeerEof(c)
    \/ \E c \in Conns, kind \in {"reset", "fault"} : ConnectionLost(c, kind)

Spec == Init /\ [][Next]_vars

\* ------------------------------------------------------------------ UXD server
\* A client that is constructed and never entered.
NoClient == InitClient /\ workload.timed /\ timeout = 0

\* A UXDSocketServer constructed with any path and limit over any filesystem.
InitUXD ==
    /\ NoClient
    /\ upath \in {0} \cup Paths
    /\ ulimit \in {NONE, 0, 1}
    /\ fs \in [Paths -> {"absent", "file", "socket", "dir"}]
    /\ upc = "idle"
    /\ ufound = "none"
    /\ uraised = "none"
    /\ usock = 0
    /\ userver = "none"
    /\ ulog = <<>>
    /\ NoSort

\* What the handler of the failed os.rmdir() raises: its message formats the
\* name e, which is local to __aenter__ and unbound there.
RmdirFailure == "UnboundLocalError"

\* __aenter__ leaves by raising exception.
UXDRaise(exception) ==
    /\ uraised' = exception
    /\ upc' = "raised"

\* UXDSocketServer.__aenter__ up to the awaited asyncio.start_unix_server:
\* the tests of self.path, the removal of what is found there, and the bind.
\* os.rmdir() is called without an argument and always fails; os.remove and
\* sock.bind succeed or fail as the operating system decides.
UXDEnter ==
    /\ upc = "idle"
    /\ \E removeOk \in BOOLEAN, bindOk \in BOOLEAN :
          IF upath = 0
          THEN /\ UXDRaise("freedmIPCSocketCreation")
               /\ UNCHANGED <<fs, ufound, usock, ulog>>
          ELSE IF fs[upath] = "dir"
          THEN /\ ufound' = "dir"
               /\ UXDRaise(RmdirFailure)
               /\ UNCHANGED <<fs, usock, ulog>>
          ELSE IF fs[upath] # "absent" /\ ~removeOk
          THEN /\ ufound' = fs[upath]
               /\ UXDRaise("freedmIPCSocketCreation")
               /\ UNCHANGED <<fs, usock, ulog>>
          ELSE LET removed == IF fs[upath] # "absent" THEN <<"remove">> ELSE <<>>
               IN  /\ ufound' = fs[upath]
                   /\ IF bindOk
                      THEN /\ fs' = [fs EXCEPT ![upath] = "socket"]
                           /\ usock' = upath
                           /\ ulog' = removed \o <<"bind">>
                           /\ upc' = "starting"
                           /\ UNCHANGED uraised
                      ELSE /\ fs' = [fs EXCEPT ![upath] = "absent"]
                           /\ ulog' = removed
                           /\ UXDRaise("freedmIPCSocketCreation")
                           /\ UNCHANGED usock
    /\ UNCHANGED <<client, sorter, upath, ulimit, userver>>

\* asyncio.start_unix_server returns and __aenter__ stores the server; the
\* limit is passed on only when it is truthy.
UXDServerStarted ==
    /\ upc = "starting"
    /\ userver' = IF Truthy(ulimit) THEN "limit" ELSE "default"
    /\ upc' = "entered"
    /\ UNCHANGED <<client, sorter, upath, ulimit, fs, ufound, uraised, usock,
                   ulog>>

NextUXD == UXDEnter \/ UXDServerStarted

SpecUXD == InitUXD /\ [][NextUXD]_vars

\* ------------------------------------------------------------------ sorting
\* Item names are Python strings: sequences of characters, a character being
\* the space or a letter, ordered as their code points are.
Space == 0

Letters == 1..MaxLetters

\* The names used: every one-letter name, and one name with a space in it.
Names == {<<l>> : l \in Letters} \cup {<<1, Space, 2>>}

\* str.__lt__: lexicographic order on strings.
RECURSIVE StrLess(_, _)
StrLess(a, b) ==
    IF b = <<>> THEN FALSE
    ELSE IF a = <<>> THEN TRUE
    ELSE IF Head(a) # Head(b) THEN Head(a) < Head(b)
    ELSE StrLess(Tail(a), Tail(b))

\* sorted(S) for a set of strings.
RECURSIVE Sorted(_)
Sorted(S) ==
    IF S = {} THEN <<>>
    ELSE LET least == CHOOSE x \in S : \A y \in S \ {x} : StrLess(x, y)
         IN  <<least>> \o Sorted(S \ {least})

\* ' '.join(strings)
RECURSIVE Join(_)
Join(strings) ==
    IF strings = <<>> THEN <<>>
    ELSE IF Len(strings) = 1 THEN Head(strings)
    ELSE Head(strings) \o <<Space>> \o Join(Tail(strings))

\* str.split(' '): the pieces between single spaces, empty pieces included.
RECURSIVE Split(_)
Split(str) ==
    LET blanks == {i \in 1..Len(str) : str[i] = Space}
    IN  IF blanks = {} THEN <<str>>
        ELSE LET i == CHOOSE j \in blanks : \A k \in blanks : j <= k
             IN  <<SubSeq(str, 1, i - 1)>> \o Split(SubSeq(str, i + 1, Len(str)))

\* The dict after the head of sort(): self-references discarded, the items
\* that occur only as dependencies added with no dependencies of their own.
Prepared(data) ==
    LET foreign == UNION {data[k] : k \in DOMAIN data} \ DOMAIN data
    IN  [k \in DOMAIN data \cup foreign |->
            IF k \in DOMAIN data THEN data[k] \ {k} ELSE {}]

\* The items without dependencies left.
Ordered(data) == {item \in DOMAIN data : data[item] = {}}

\* The dict of the next pass of the while loop.
Remaining(data) ==
    [item \in DOMAIN data \ Ordered(data) |-> data[item] \ Ordered(data)]

\* The strings the generator sort() yields, one per pass of its loop.
RECURSIVE Yielded(_)
Yielded(data) ==
    IF Ordered(data) = {} THEN <<>>
    ELSE <<Join(Sorted(Ordered(data)))>> \o Yielded(Remaining(data))

\* The dict the loop of sort() ends with; the assert wants it empty.
RECURSIVE Leftover(_)
Leftover(data) ==
    IF Ordered(data) = {} THEN data ELSE Leftover(Remaining(data))

\* topologicalSorter(data).  reduce() over the values of an empty dict raises
\* TypeError; the final filter looks the names up in the caller's dict, which
\* sort() has updated in place.
topologicalSorter(data) ==
    IF DOMAIN data = {} THEN Outcome("TypeError", <<>>)
    ELSE IF DOMAIN Leftover(Prepared(data)) # {} THEN Outcome("CyclicReference", <<>>)
    ELSE LET graph == Split(Join(Yielded(Prepared(data))))
         IN  Outcome("none", SelectSeq(graph, LAMBDA g : g \in DOMAIN Prepared(data)))

\* Every dict from names to sets of names.
InitSort ==
    /\ NoClient
    /\ NoUXD
    /\ sdata \in UNION {[keys -> SUBSET Names] : keys \in SUBSET Names}
    /\ sresult = Outcome("none", <<>>)
    /\ spc = "idle"

\* The call; the caller's dict is left as sort() updated it.
SortCall ==
    /\ spc = "idle"
    /\ sresult' = topologicalSorter(sdata)
    /\ sdata' = IF DOMAIN sdata = {} THEN sdata ELSE Prepared(sdata)
    /\ spc' = "returned"
    /\ UNCHANGED <<client, uxd>>

NextSort == SortCall

SpecSort == InitSort /\ [][NextSort]_vars

\* ------------------------------------------------------------------ claims
\* A thread is inside an effective __aexit__.
InShutdown(t) == pc[t] \in {"pre", "sleep", "post"}

\* C1: connected() is true exactly from the moment _onConnectionEstablished
\* has stored a Connection until a shutdown of that Connection starts: it is
\* false before any establishment, false once the shutdown of the stored
\* Connection has snapshotted and cleared the references, whoever started
\* it, and never true for a Connection some thread holds as its snapshot.
C1_ConnectedWindow ==
    /\ connected <=> (nconns > 0 /\ events[nconns] = <<>>)
    /\ connected => \A t \in Threads : InShutdown(t) => xconn[t] # connection
    /\ \A c \in Conns : events[c] # <<>> => connection # c

\* connected() in the state a step leads to.
connectedNext == connection' # 0 /\ closedStamps'[connection'] = 0

\* The read task's own exit is shutting the Connection down while an
\* external close() has been called and has returned.
C1_Witness ==
    \E c \in Conns, t \in Callers :
        /\ InShutdown(c) /\ xconn[c] = c
        /\ pc[t] = "returned"
        /\ ~connected

\* Each shutdown step has run at most once on every Connection.
AtMostOnce ==
    \A c \in Conns :
        /\ Count("preDisconnect", c) <= 1
        /\ Count("closeConnection", c) <= 1
        /\ Count("postDisconnect", c) <= 1
        /\ closedStamps[c] <= 1

\* A step in which a thread calls close() / __aexit__ on an instance that is
\* not connected changes nothing but that thread's own position.
NoopCall ==
    \A t \in Threads :
        (/\ ~connected
         /\ pc[t] \in {"idle", "new", "read", "handle"}
         /\ pc'[t] = Returned(t)
         /\ t \in Tasks => outcome'[t] = "ok")
        => /\ UNCHANGED <<instance, nconns, transport, frames, events, sent,
                          eof, exc>>
           /\ \A u \in Threads \ {t} : pc'[u] = pc[u]

\* C2: shutdown is idempotent: on every Connection the preDisconnect hook,
\* closeConnection and the postDisconnect hook each run at most once and
\* closed-at is stamped at most once, however the calls of close() and
\* __aexit__ by external callers and by the read tasks interleave; a call on
\* an instance that is not connected returns and changes no state.
C2_ShutdownIdempotent == []AtMostOnce /\ [][NoopCall]_vars

\* A Connection was shut down completely by its own read task and an external
\* close() found nothing left to do.
C2_Witness ==
    \E c \in Conns, t \in Callers :
        /\ pc[c] = "done" /\ outcome[c] = "ok"
        /\ Count("postDisconnect", c) = 1 /\ closedStamps[c] = 1
        /\ pc[t] = "returned"
\* C3: whenever the read loop of a Connection has ended, for whatever cause,
\* the shutdown path has been executed exactly once for that Connection.
C3_LoopExitShutsDown ==
    \A c \in Conns : pc[c] = "done" => Count("preDisconnect", c) = 1

\* C4: whenever closeConnection has returned for a Connection (the
\* postDisconnect hook has been reached), its closed-at is stamped, whatever
\* state the transport was in when the handshake started.
C4_HandshakeStamps ==
    \A c \in Conns : Count("postDisconnect", c) > 0 => closedStamps[c] > 0

\* C5: a Connection whose closed-at is stamped has had its transport closed
\* by writer.close(), whoever started the shutdown.
C5_StampedImpliesClosed ==
    \A c \in Conns : closedStamps[c] > 0 => tclosed[c]

\* The payload bytes delivered on Connection c.
Payload(c) == Flatten(delivered[c])

\* C6: with chunksize C >= 1 and limit L >= C the read loop issues at most
\* floor(L/C) reads, delivers at most floor(L/C)*C payload bytes, and a read
\* is only ever pending while the remaining budget is at least C.
C6_ChunkBudget ==
    (chunksize >= 1 /\ limit >= chunksize) =>
        \A c \in Conns :
            /\ readsIssued[c] <= limit \div chunksize
            /\ Len(Payload(c)) <= (limit \div chunksize) * chunksize
            /\ pc[c] = "read" => Budget(c) >= chunksize

\* chunksize 2, limit 5 and five bytes written: two messages of two bytes
\* were handled, the loop has stopped and the fifth byte was never read.
C6_Witness ==
    \E c \in Conns :
        /\ chunksize = 2 /\ limit = 5 /\ sent[c] = 5
        /\ delivered[c] = << <<1, 2>>, <<3, 4>> >>
        /\ buffer[c] = <<5>>
        /\ handleReturns[c] = 2
        /\ pc[c] \notin {"new", "read", "handle"}

\* C7: with no chunksize and a limit L >= 0 every Message carries at most L
\* payload bytes (so none is delivered when L = 0).
C7_MessageWithinLimit ==
    (chunksize = NONE /\ limit # NONE) =>
        \A c \in Conns : \A i \in 1..Len(delivered[c]) :
            Len(delivered[c][i]) <= limit

\* C8: with a limit L set, the payload bytes delivered over one Connection
\* sum to at most L.  Stated for L >= 1; L = 0, which the code takes for no
\* limit at all, is the case of C7.
C8_TotalWithinLimit ==
    limit >= 1 => \A c \in Conns : Len(Payload(c)) <= limit

\* C9: the payloads delivered on a Connection are, in order and without gap
\* or repetition, the first bytes of the peer's stream; no Message is empty;
\* a Message is dispatched, and the next read issued, only after
\* handleMessage has returned for every earlier Message.
C9_OrderedDelivery ==
    \A c \in Conns :
        /\ Len(Payload(c)) <= sent[c]
        /\ Payload(c) = [i \in 1..Len(Payload(c)) |-> i]
        /\ \A i \in 1..Len(delivered[c]) : delivered[c][i] # <<>>
        /\ Len(delivered[c]) <= handleReturns[c] + 1
        /\ readsIssued[c] <= handleReturns[c] + 1
        /\ pc[c] = "handle" => Len(delivered[c]) = handleReturns[c] + 1
        /\ pc[c] = "read" => Len(delivered[c]) = handleReturns[c]

\* The peer wrote two bytes and then one more; both writes were delivered as
\* Messages of their own, in that order, and handled.
C9_Witness ==
    \E c \in Conns :
        /\ delivered[c] = << <<1, 2>>, <<3>> >>
        /\ handleReturns[c] = 2

\* The shutdown steps performed on Connection c, by name.
Steps(c) ==
    LET named == {"preDisconnect", "cancel", "closeConnection", "postDisconnect"}
    IN  SelectSeq(events[c], LAMBDA e : e.ev \in named)

\* C10: the steps of a shutdown come in the order preDisconnect, cancel,
\* closeConnection, postDisconnect, each at most once; preDisconnect runs
\* before the transport is closed by writer.close() and while closed-at is
\* null, postDisconnect finds the transport no longer open and closed-at
\* stamped.
C10_ShutdownOrder ==
    \A c \in Conns :
        LET order == <<"preDisconnect", "cancel", "closeConnection",
                       "postDisconnect">>
        IN  /\ Len(Steps(c)) <= 4
            /\ \A i \in 1..Len(Steps(c)) :
                  /\ Steps(c)[i].ev = order[i]
                  /\ Steps(c)[i].ev = "preDisconnect" =>
                        ~Steps(c)[i].closed /\ ~Steps(c)[i].stamped
                  /\ Steps(c)[i].ev = "postDisconnect" =>
                        ~Steps(c)[i].open /\ Steps(c)[i].stamped

\* The read task of Connection c was cancelled while suspended in its loop:
\* inside the stream read or inside handleMessage.
CancelledInLoop(c) == cause[c] \in {"CancelledError", "handleMessage:CancelledError"}

\* A cancelled read task does not end with a MessageHandlingError, and once
\* it has ended the shutdown of its Connection has been started.
CancelEndsNormally ==
    \A c \in Tasks :
        CancelledInLoop(c) =>
            /\ outcome[c] # "freedmIPCMessageHandler"
            /\ pc[c] = "done" => Count("preDisconnect", c) = 1

\* A read task cancelled in its loop dispatches no further Message.
CancelStopsDispatch ==
    \A c \in Tasks : CancelledInLoop(c) => delivered'[c] = delivered[c]

\* C11: cancelling the read task is a normal loop exit wherever the task is
\* suspended, inside a stream read or inside handleMessage: it dispatches no
\* further Message, the cancellation is not turned into a
\* freedmIPCMessageHandler error, and the Connection is still shut down.
C11_CancelIsNormalExit == []CancelEndsNormally /\ [][CancelStopsDispatch]_vars

\* C12: when the timer of a configured timeout fires before the read-loop
\* run has ended, the stored handler task ends with TimeoutError, the read
\* loop is cancelled and, once the read task has ended and no shutdown of
\* the Connection is still under way, the Connection is shut down:
\* connected() is false and closed-at is stamped.  A run that ends before
\* the timer fires passes its own outcome to the handler task.  Stated for
\* transports that did not fail (the case of C4).
C12_TimeoutAbortsRun ==
    \A c \in Conns :
        /\ (/\ woutcome[c] = "TimeoutError" /\ pc[c] = "done" /\ exc[c] = "none"
            /\ \A t \in Threads : InShutdown(t) => xconn[t] # c) =>
               /\ ~(connection = c /\ closedStamps[c] = 0)
               /\ closedStamps[c] > 0
        /\ (wpc[c] = "done" /\ woutcome[c] \notin {"TimeoutError", "cancelled"}) =>
               woutcome[c] = outcome[c]

\* The read task of Connection c (or the wait_for task that is to start it)
\* is alive and no cancellation of it is on its way.
Running(c) ==
    \/ pc[c] \in {"new", "read", "handle"} /\ ~cancelReq[c]
    \/ wpc[c] \in {"new", "waiting"} /\ ~wcancel[c]

\* Connection c was assembled and nothing has closed or stamped it.
Open(c) == c <= nconns /\ ~closing[c] /\ ~tclosed[c] /\ closedStamps[c] = 0

\* C13: whatever the sequence of enter and shutdown operations, every
\* running read task and every open Connection is one the instance still
\* references, as self._handler / self._connection or as the snapshot of a
\* shutdown under way; so there are never two running read tasks, nor a task
\* or Connection that can no longer be cancelled or closed.
C13_OneManagedConnection ==
    \A c \in Conns :
        /\ Running(c) =>
               handler = c \/ \E t \in Threads : InShutdown(t) /\ xhandler[t] = c
        /\ Open(c) =>
               connection = c \/ \E t \in Threads : InShutdown(t) /\ xconn[t] = c

\* C14: entering the UXD server: a regular file found at the configured
\* path is removed before the socket is bound there; a directory found
\* there makes __aenter__ fail with freedmIPCSocketCreation, with no socket
\* bound and no server started.
C14_UXDEnterPath ==
    upc # "idle" =>
        /\ (ufound = "file" /\ usock # 0) =>
               usock = upath /\ ulog = <<"remove", "bind">>
        /\ ufound = "dir" =>
               /\ uraised = "freedmIPCSocketCreation"
               /\ usock = 0 /\ userver = "none" /\ ulog = <<>>

\* The items of dict data define a cyclic dependency: some non-empty set of
\* items in which every item depends on another item of the set.
Cyclic(data) ==
    \E S \in SUBSET DOMAIN data :
        S # {} /\ \A k \in S : (data[k] \ {k}) \cap S # {}

\* The positions of item in list.
Positions(list, item) == {i \in 1..Len(list) : list[i] = item}

\* C15: for a dict without a cyclic dependency (self-references ignored)
\* topologicalSorter returns a list in which every item, key or dependency,
\* appears exactly once and after all the items it depends on; for a dict
\* with a cyclic dependency it raises CyclicReference.
C15_TopologicalOrder ==
    spc = "returned" =>
        IF Cyclic(sdata)
        THEN sresult.raised = "CyclicReference"
        ELSE /\ sresult.raised = "none"
             /\ \A item \in DOMAIN sdata :
                    /\ Cardinality(Positions(sresult.list, item)) = 1
                    /\ \A dep \in sdata[item] \ {item} :
                           \A i \in Positions(sresult.list, item) :
                               \E j \in Positions(sresult.list, dep) : j < i
             /\ \A i \in 1..Len(sresult.list) : sresult.list[i] \in DOMAIN sdata

\* The names of the shutdown steps this step performs on Connection c.
StepsTaken(c) ==
    {events'[c][i].ev : i \in (Len(events[c]) + 1)..Len(events'[c])}

\* A step that runs the handshake of closeConnection (the transport is not
\* closing yet) takes its branch by the reader's state: at end-of-input it
\* marks end-of-input and writes no EOF, otherwise it writes EOF iff the
\* transport can; a peer that sent nothing and closed gets the first branch.
HandshakeBranch ==
    \A c \in Conns :
        ("closeConnection" \in StepsTaken(c) /\ ~closing[c]) =>
            /\ AtEof(c) =>
                   /\ "feed_eof" \in StepsTaken(c)
                   /\ "write_eof" \notin StepsTaken(c)
                   /\ ~wroteEof'[c]
            /\ ~AtEof(c) =>
                   /\ "feed_eof" \notin StepsTaken(c)
                   /\ "write_eof" \in StepsTaken(c) <=> canWriteEof
                   /\ wroteEof'[c] <=> canWriteEof
            /\ (sent[c] = 0 /\ eof[c]) => "feed_eof" \in StepsTaken(c)

\* A Connection on which the peer sent nothing and whose handshake took the
\* branch for end-of-input has dispatched no Message, and is stamped once
\* closeConnection has returned.
ZeroBytesClosedByPeer ==
    \A c \in Conns :
        (sent[c] = 0 /\ Count("feed_eof", c) > 0) =>
            /\ delivered[c] = <<>>
            /\ Count("write_eof", c) = 0 /\ ~wroteEof[c]
            /\ Count("postDisconnect", c) > 0 => closedStamps[c] = 1

HandlerFaulted(c) == cause[c] = "handleMessage:Exception"

\* The fault of handleMessage ends the read task with freedmIPCMessageHandler,
\* which a wait_for task that is not cancelled or timed out passes on.
FaultSurfaces ==
    \A c \in Conns :
        HandlerFaulted(c) =>
            /\ pc[c] = "done"
            /\ outcome[c] = "freedmIPCMessageHandler"
            /\ (wpc[c] = "done" /\ woutcome[c] \notin {"TimeoutError", "cancelled"})
                   => woutcome[c] = "freedmIPCMessageHandler"

\* From the fault on, no read is issued and no Message dispatched.
FaultStopsLoop ==
    \A c \in Conns :
        cause'[c] = "handleMessage:Exception" =>
            /\ readsIssued'[c] = readsIssued[c]
            /\ delivered'[c] = delivered[c]
            /\ handleReturns'[c] = handleReturns[c]

\* C17: a fault of handleMessage on a Message is wrapped and is the outcome
\* of the read task as freedmIPCMessageHandler, and the loop stops: after
\* the faulting Message no read is issued and no Message dispatched on that
\* Connection.
C17_HandlerFaultStopsLoop == []FaultSurfaces /\ [][FaultStopsLoop]_vars

\* handleMessage faulted on the second Message while a further byte was
\* waiting in the reader, and the peer has written yet another since.
C17_Witness ==
    \E c \in Conns :
        /\ HandlerFaulted(c)
        /\ Len(delivered[c]) = 2 /\ handleReturns[c] = 1
        /\ Len(buffer[c]) = 2

\* C18: with chunksize C and limit L set, the budget the loop tests before a
\* read is L minus the payload bytes read so far on the Connection, also
\* when reads return fewer than C bytes: a read is pending only while
\* L - bytes read >= C, and the loop stops for its budget only when
\* L - bytes read < C.
C18_BudgetCountsBytes ==
    (Truthy(chunksize) /\ Truthy(limit)) =>
        \A c \in Conns :
            /\ pc[c] \in {"read", "handle"} => Budget(c) = limit - Len(Payload(c))
            /\ pc[c] = "read" => limit - Len(Payload(c)) >= chunksize
            /\ cause[c] = "budget" => limit - Len(Payload(c)) < chunksize

\* A step of __aenter__ around its _post_connect hook.  The hook is awaited
\* only with the Connection stored and its read task spawned; a step in
\* which the hook fails leaves the instance, the tasks and the transports as
\* they are, and logs the failure.
PostConnectStep ==
    /\ (entering = 0 /\ entering' # 0) =>
           /\ connection' = entering' /\ handler' = entering'
           /\ pc'[entering'] = "new" \/ wpc'[entering'] = "new"
           /\ connectedNext
    /\ \A c \in Conns :
           (entered[c] = "none" /\ entered'[c] = "raised") =>
               /\ UNCHANGED <<instance, pc, wpc, outcome, cancelReq, transport,
                              events>>
               /\ Len(log') > Len(log)

\* C19: the postConnect hook runs only after the Connection is stored and
\* the read task spawned; its failure rolls nothing back (the Connection
\* stays stored, connected() and the read task are as before) and is logged.
C19_PostConnectFailure == [][PostConnectStep]_vars

\* C20 as claimed: once a shutdown of a Connection has begun (the references
\* are cleared, the preDisconnect hook is called), no further Message of
\* that Connection is dispatched to handleMessage.
C20_NoDispatchOnceShutdownBegan ==
    [][\A c \in Conns : events[c] # <<>> => delivered'[c] = delivered[c]]_vars

\* The shutdown of Connection c has called handler.cancel() and the
\* cancellation has got to the read task: at once without a timeout, through
\* the step of the wait_for task with one.
CancelReached(c) ==
    /\ Count("cancel", c) > 0
    /\ Truthy(timeout) => wpc[c] = "done"

\* The read task of Connection c has left its loop.
LoopLeft(c) == pc[c] \in {"pre", "sleep", "post", "done"}

\* C20 amended: once the shutdown of a Connection has cancelled the read
\* task and the cancellation has got to it, or the read task has left its
\* loop itself, no further Message of that Connection is dispatched,
\* whatever the interleaving and wherever a hook suspends; before that,
\* while the shutdown is suspended in preDisconnect, Messages still are.
C20_NoDispatchOnceCancelled ==
    [][\A c \in Conns :
          (CancelReached(c) \/ LoopLeft(c)) => delivered'[c] = delivered[c]]_vars

\* An external shutdown cancelled the read task while it waited for more
\* input after a first Message; a byte that arrived since was never read.
C20_Witness ==
    \E c \in Conns, t \in Callers :
        /\ xconn[t] = c /\ InShutdown(t)
        /\ CancelReached(c) /\ cause[c] = "CancelledError"
        /\ Len(delivered[c]) = 1 /\ buffer[c] # <<>>

\* The read loop of Connection c stopped before a read because the remaining
\* budget was below one chunk.
BudgetStopped(c) == cause[c] = "budget"

\* A read loop stops for its budget only while the input is not at
\* end-of-input, and has then invoked the shutdown of its Connection: the
\* instance no longer holds it, and once closeConnection has returned it is
\* stamped closed.
BudgetEndsConnection ==
    \A c \in Conns :
        BudgetStopped(c) =>
            /\ Count("preDisconnect", c) = 1
            /\ connection # c
            /\ Count("postDisconnect", c) > 0 => closedStamps[c] > 0

\* The step in which a loop stops for its budget starts the shutdown, unless
\* one is under way already; the step that runs closeConnection after it,
\* with the input still not at end-of-input, takes the "closed by us" branch:
\* no feed_eof, and write_eof iff the transport supports it.
BudgetHandshake ==
    \A c \in Conns :
        /\ (~BudgetStopped(c) /\ cause'[c] = "budget") =>
               /\ ~AtEof(c)
               /\ "preDisconnect" \in StepsTaken(c) \/ Count("preDisconnect", c) = 1
        /\ (BudgetStopped(c) /\ "closeConnection" \in StepsTaken(c) /\ ~AtEof(c)) =>
               /\ "feed_eof" \notin StepsTaken(c)
               /\ "write_eof" \in StepsTaken(c) <=> canWriteEof
               /\ wroteEof'[c] <=> canWriteEof

\* C21: exhausting the chunked byte budget ends the whole connection: when
\* the read loop stops because the remaining budget is below one chunk while
\* the input is not at end-of-input, the loop invokes shutdown, the close
\* handshake takes the "closed by us" branch (as long as the input has not
\* reached end-of-input by then) and the Connection ends closed: connected()
\* is false and closed-at is stamped, though the peer may still be sending.
C21_BudgetEndsConnection == []BudgetEndsConnection /\ [][BudgetHandshake]_vars
====
